---- MODULE Spec2Model ----
(***************************************************************************)
(* The IoT sensor service (python-service): the sensors table and the      *)
(* repository that owns it, the bearer-token gate, and the logging         *)
(* middleware that binds a correlation id to every request.                *)
(*                                                                         *)
(* Every request runs in its own task; the steps of concurrent requests    *)
(* interleave.  One action is one step of one request: a statement (or a   *)
(* statement with the commit that follows it) of a repository method, a    *)
(* dependency of the route, or one half of LoggingMiddleware.dispatch.     *)
(*                                                                         *)
(* Representation:                                                         *)
(*   - an id "sensor-NNN" is the sequence of the decimal digits after the  *)
(*     "sensor-" prefix (SUBSTR(id, 8)), so that formatting, CAST and      *)
(*     ORDER BY are computed on the characters;                            *)
(*   - a number is exact and not negative: an integer is hi * 2^27 + lo,   *)
(*     and a floating-point number is held in halves, (hi * 2^27 + lo) / 2 *)
(*     (72.5 is 145 halves), so that float() rounds as a double does;      *)
(*   - a timestamp is the reading of the clock `now`.                      *)
(*                                                                         *)
(* Granularity: a write statement and the commit that follows it are one   *)
(* step (SQLite lets one connection write at a time, and other connections *)
(* read the committed table until the commit); the reads of a repository   *)
(* method that come before its write (the id scan or the existence check,  *)
(* and the reading of the clock) are one step, the read-back another.      *)
(* The inputs of a request are drawn where the code first reads them.      *)
(*                                                                         *)
(* Taken from the libraries and not modelled: a statement waits for the    *)
(* write lock of another connection and does not time out; a connection    *)
(* is used, and closed, on the thread that opened it.                      *)
(***************************************************************************)
EXTENDS Integers, Sequences, FiniteSets, TLC

(* ------------------------------ bounds -------------------------------- *)

MaxRequests == 2        \* requests received in a behaviour of Spec
MaxSerialRequests == 3  \* requests received in a behaviour of SpecSeq
MaxSeededRequests == 2  \* requests received in a behaviour of SpecSeeded
MaxRacingRequests == 3  \* requests received in a behaviour of SpecRacing
MaxSuffix == 2          \* largest numeric suffix of an id a request names
MaxTime == 1            \* largest reading of the clock

\* the tasks that handle requests: two, so that every step of one request can
\* fall between any two steps of another
Reqs == {1, 2}

(* ------------------------- program constants -------------------------- *)

IdWidth == 3        \* f"sensor-{n:03d}"

DoubleMantissaBits == 53    \* float(value): a Python float is a double

HTTP_201_CREATED == 201
HTTP_204_NO_CONTENT == 204
HTTP_404_NOT_FOUND == 404
HTTP_401_UNAUTHORIZED == 401

\* the answer to a RequestValidationError
HTTP_422_UNPROCESSABLE_ENTITY == 422

\* HTTPBearer's answer to a request without credentials: 403 or 401, by the
\* version of the framework (the tests accept both)
NotAuthenticated == {401, 403}

SensorType ==
    {"temperature", "motion", "humidity", "light", "air_quality", "co2",
     "contact", "pressure"}

SensorStatus == {"active", "inactive", "error"}

FieldNames == {"name", "type", "location", "value", "unit", "status"}

\* settings.api_token, and what a request may present instead
ApiToken == "test-secret-token"
NoCredentials == "<absent>"
Tokens == {NoCredentials, "invalid-token", ApiToken}

\* the two routers, and the routes of the sensors router.  The five sensors
\* routes declare the same dependencies, so a request is "sensors" until its
\* route function runs.
Routers == {"health", "sensors"}
SensorRoutes == {"list", "get", "create", "update", "delete"}

(* ------------------------------ values -------------------------------- *)

\* the limbs of a number
Limb == 2^27

\* the values of a body: Union[float, int, bool]
BoolV(b) == [kind |-> "bool", hi |-> 0, lo |-> IF b THEN 1 ELSE 0]
IntV(i) == [kind |-> "int", hi |-> i \div Limb, lo |-> i % Limb]
LargeIntV(hi, lo) == [kind |-> "int", hi |-> hi, lo |-> lo]
FloatV(halves) == [kind |-> "float", hi |-> halves \div Limb, lo |-> halves % Limb]

\* a float, from its number of halves
Halves(hi, lo) == [hi |-> hi, lo |-> lo]

\* the float that is exactly the integer hi * Limb + lo
ExactFloat(hi, lo) ==
    Halves(2 * hi + (2 * lo) \div Limb, (2 * lo) % Limb)

\* int.bit_length
RECURSIVE BitLength(_)
BitLength(n) == IF n = 0 THEN 0 ELSE 1 + BitLength(n \div 2)

\* float(n) of an int below 2^55: a double keeps 53 bits, and what is below
\* them is rounded to nearest, a tie to the even neighbour
FloatOfInt(hi, lo) ==
    LET bits == IF hi = 0 THEN BitLength(lo) ELSE 27 + BitLength(hi)
    IN  IF bits <= DoubleMantissaBits THEN ExactFloat(hi, lo)
        ELSE LET unit == 2^(bits - DoubleMantissaBits)
                 rest == lo % unit
                 down == lo - rest
                 up == \/ 2 * rest > unit
                       \/ 2 * rest = unit /\ (lo \div unit) % 2 = 1
                 kept == IF up THEN down + unit ELSE down
             IN  ExactFloat(hi + kept \div Limb, kept % Limb)

\* a conversion that asks only whether the value is true
ConvertByTruth(v) ==
    IF v.hi = 0 /\ v.lo = 0 THEN ExactFloat(0, 0) ELSE ExactFloat(0, 1)

\* SensorRepository._convert_value_for_storage
ConvertValueForStorage(v) ==
    IF v.kind = "bool" THEN (IF v.lo = 1 THEN ExactFloat(0, 1) ELSE ExactFloat(0, 0))
    ELSE IF v.kind = "int" THEN FloatOfInt(v.hi, v.lo)
    ELSE Halves(v.hi, v.lo)

(* -------------------------------- ids --------------------------------- *)

RECURSIVE Digits(_)
Digits(n) == IF n < 10 THEN <<n>> ELSE Append(Digits(n \div 10), n % 10)

RECURSIVE ZeroPad(_, _)
ZeroPad(ds, width) == IF Len(ds) >= width THEN ds ELSE ZeroPad(<<0>> \o ds, width)

\* f"sensor-{n:03d}": the characters after "sensor-"
FormatId(n) == ZeroPad(Digits(n), IdWidth)

\* CAST(SUBSTR(id, 8) AS INTEGER)
RECURSIVE CastInteger(_)
CastInteger(ds) ==
    IF ds = <<>> THEN 0
    ELSE 10 * CastInteger(SubSeq(ds, 1, Len(ds) - 1)) + ds[Len(ds)]

\* the text order of ORDER BY id (BINARY collation)
TextLess(a, b) ==
    \E i \in 1..(Len(a) + 1) :
        /\ \A j \in 1..(i - 1) : j <= Len(b) /\ a[j] = b[j]
        /\ \/ i = Len(a) + 1 /\ Len(b) >= i
           \/ i <= Len(a) /\ i <= Len(b) /\ a[i] < b[i]

\* the ids a request may name in its path
PathIds == {FormatId(n) : n \in 1..MaxSuffix}

(* ------------------------------ inputs -------------------------------- *)

\* SensorCreate bodies
CreateInputs ==
    {[name |-> "Test Sensor", type |-> "temperature", location |-> "test_room",
      value |-> FloatV(145), unit |-> "fahrenheit", status |-> "active"],
     [name |-> "Door", type |-> "contact", location |-> "hall",
      value |-> BoolV(TRUE), unit |-> "state", status |-> "inactive"]}

\* one more SensorCreate body, for the runs that handle one request at a time:
\* an integer value above 2^53
WideCreateInputs ==
    CreateInputs
        \cup {[name |-> "Counter", type |-> "light", location |-> "meter",
                value |-> LargeIntV(2^26, 1), unit |-> "pulses", status |-> "active"]}

\* bodies that SensorCreate refuses: a type, or a status, outside its enumeration
InvalidCreateInputs ==
    {[name |-> "Invalid", type |-> "invalid_type", location |-> "test",
      value |-> IntV(0), unit |-> "test", status |-> "active"],
     [name |-> "Invalid", type |-> "light", location |-> "test",
      value |-> IntV(0), unit |-> "test", status |-> "broken"]}

\* the values a SensorUpdate body carries for the fields it sets
UpdateValues ==
    {[name |-> "Renamed", type |-> "motion", location |-> "attic",
      value |-> BoolV(FALSE), unit |-> "celsius", status |-> "error"]}

\* the fields a SensorUpdate body sets (model_fields_set)
UpdateFieldSets ==
    {{}, {"name"}, {"value", "status"}, {"name", "value"}}

\* SensorUpdate bodies: the fields set, those of them set to null, the values
UpdateInputs ==
    {u \in [set : UpdateFieldSets, nulls : {{}, {"name"}},
            val : UpdateValues] : u.nulls \subseteq u.set}

\* more SensorUpdate bodies, for the runs that handle one request at a time
WideUpdateFieldSets ==
    {s \in SUBSET FieldNames : Cardinality(s) <= 1 \/ s = FieldNames}
        \cup UpdateFieldSets

WideUpdateInputs ==
    {u \in [set : WideUpdateFieldSets, nulls : SUBSET {"name", "value"},
            val : UpdateValues] : u.nulls \subseteq u.set}
        \cup [set : {{"value"}}, nulls : {{}},
              val : {[name |-> "Renamed", type |-> "motion", location |-> "attic",
                      value |-> v, unit |-> "celsius", status |-> "inactive"] :
                     v \in {BoolV(TRUE), IntV(3), LargeIntV(2^26, 1), FloatV(151)}}]

\* bodies that SensorUpdate refuses
InvalidUpdateInputs ==
    {[set |-> {"type"}, nulls |-> {},
      val |-> [name |-> "Renamed", type |-> "invalid_type", location |-> "attic",
               value |-> BoolV(FALSE), unit |-> "celsius", status |-> "error"]],
     [set |-> {"name", "status"}, nulls |-> {},
      val |-> [name |-> "Renamed", type |-> "motion", location |-> "attic",
               value |-> BoolV(FALSE), unit |-> "celsius", status |-> "broken"]]}

\* X-Correlation-ID headers a request may carry
NoCid == <<"none", 0>>
HeaderCids == {<<"hdr", 1>>}

(* ------------------------------- state -------------------------------- *)

VARIABLES
    db,         \* the sensors table: the set of its rows
    now,        \* the clock read by datetime.now
    nreq,       \* requests received so far
    allocated,  \* the suffixes create has allocated, in the order of the inserts
    pc,         \* where each request is
    kind,       \* its route
    tok,        \* the credentials it presented, once HTTPBearer has read them
    cid,        \* dispatch's local correlation_id
    ctx,        \* correlation_id_var in the context of the request's task
    conn,       \* its connection: "none", "open" or "closed"
    loc,        \* the locals of the repository method it runs
    resp,       \* its response, as far as it is built
    logs,       \* the records the logger emitted for it
    calls       \* the repository statements it has executed

vars ==
    <<db, now, nreq, allocated, pc, kind, tok, cid, ctx, conn, loc, resp, logs, calls>>

NoLoc == [sid |-> <<>>, t |-> 0, body |-> <<>>]
NoResp == [status |-> 0, body |-> <<>>, xcid |-> NoCid, raised |-> FALSE]

\* a response the route (or an exception handler) built: no header yet
Answer(status, body) ==
    [status |-> status, body |-> body, xcid |-> NoCid, raised |-> FALSE]

\* an exception no handler catches: the server answers it, past the middleware
Unhandled(status) ==
    [status |-> status, body |-> <<>>, xcid |-> NoCid, raised |-> TRUE]

Init ==
    /\ db = {}
    /\ now = 0
    /\ nreq = 0
    /\ allocated = <<>>
    /\ pc = [r \in Reqs |-> "idle"]
    /\ kind = [r \in Reqs |-> "none"]
    /\ tok = [r \in Reqs |-> NoCredentials]
    /\ cid = [r \in Reqs |-> NoCid]
    /\ ctx = [r \in Reqs |-> NoCid]
    /\ conn = [r \in Reqs |-> "none"]
    /\ loc = [r \in Reqs |-> NoLoc]
    /\ resp = [r \in Reqs |-> NoResp]
    /\ logs = [r \in Reqs |-> <<>>]
    /\ calls = [r \in Reqs |-> 0]

(* ------------------------- the request models ------------------------ *)

\* a model whose type and status are plain strings
AnyEnumValue(sensor) == TRUE

\* SensorCreate: type is a SensorType and status a SensorStatus
ValidSensorCreate(sensor) ==
    sensor.type \in SensorType /\ sensor.status \in SensorStatus

\* SensorUpdate: every field is Optional; a type or a status that is not None
\* is of its enumeration
ValidSensorUpdate(updates) ==
    /\ ("type" \in updates.set \ updates.nulls) => updates.val.type \in SensorType
    /\ ("status" \in updates.set \ updates.nulls) => updates.val.status \in SensorStatus

(* --------------------------- the repository --------------------------- *)

\* a lookup that finds nothing
NeverFound(table, sensor_id) == <<>>

\* SELECT ... FROM sensors WHERE id = ?, fetchone: the row in a sequence, or <<>>
GetById(table, sensor_id) ==
    IF \E row \in table : row.id = sensor_id
    THEN <<CHOOSE row \in table : row.id = sensor_id>>
    ELSE <<>>

\* the same SELECT with ORDER BY id DESC
RECURSIVE GetAllDescending(_)
GetAllDescending(table) ==
    IF table = {} THEN <<>>
    ELSE LET last == CHOOSE row \in table :
                         \A other \in table : ~TextLess(row.id, other.id)
         IN  <<last>> \o GetAllDescending(table \ {last})

\* SELECT ... FROM sensors ORDER BY id, fetchall
RECURSIVE GetAll(_)
GetAll(table) ==
    IF table = {} THEN <<>>
    ELSE LET first == CHOOSE row \in table :
                          \A other \in table : ~TextLess(other.id, row.id)
         IN  <<first>> \o GetAll(table \ {first})

\* SELECT COUNT(*) FROM sensors, in the place of the MAX
CountRows(table) == Cardinality(table)

\* SELECT MAX(CAST(SUBSTR(id, 8) AS INTEGER)) FROM sensors WHERE id LIKE
\* 'sensor-%', fetchone()[0] or 0
MaxNum(table) ==
    IF table = {} THEN 0
    ELSE LET nums == {CastInteger(row.id) : row \in table}
         IN  CHOOSE m \in nums : \A n \in nums : n <= m

\* a table without the primary key
NoPrimaryKey(table, sensor_id) == TRUE

\* id TEXT PRIMARY KEY: whether an INSERT of this id passes the constraint
PrimaryKeyFree(table, sensor_id) == \A row \in table : row.id # sensor_id

\* CHECK(type IN (...)) and CHECK(status IN (...)) of the schema
CheckPasses(row) == row.type \in SensorType /\ row.status \in SensorStatus

\* the row create inserts
NewRow(new_id, sensor, t) ==
    [id |-> new_id, name |-> sensor.name, type |-> sensor.type,
     location |-> sensor.location,
     value |-> ConvertValueForStorage(sensor.value),
     unit |-> sensor.unit, status |-> sensor.status,
     last_reading |-> t, created_at |-> t, updated_at |-> t]

\* a loop over update_data without its test for None
FieldsWithNulls(updates) == updates.set

\* the fields of update_data that reach update_fields: set and not None
UpdateFields(updates) == {f \in updates.set : f \notin updates.nulls}

\* an update without the early return
AlwaysSomethingToUpdate(updates) == FALSE

\* if not update_fields: return existing
NothingToUpdate(updates) == UpdateFields(updates) = {}

\* the value update binds to a field
StorageValue(updates, f) ==
    IF f = "value" THEN ConvertValueForStorage(updates.val[f]) ELSE updates.val[f]

\* an UPDATE that binds every field of the body, set or not
FullReplaceRow(row, updates, t) ==
    [f \in DOMAIN row |->
        IF f \in FieldNames THEN StorageValue(updates, f)
        ELSE IF f \in {"updated_at", "last_reading"} THEN t
        ELSE row[f]]

\* an UPDATE that refreshes updated_at and forgets last_reading
StaleReadingRow(row, updates, t) ==
    [f \in DOMAIN row |->
        IF f \in UpdateFields(updates) THEN StorageValue(updates, f)
        ELSE IF f = "updated_at" THEN t
        ELSE row[f]]

\* UPDATE sensors SET <update_fields>, updated_at = ?, last_reading = ? applied
\* to one row
UpdatedRow(row, updates, t) ==
    [f \in DOMAIN row |->
        IF f \in UpdateFields(updates) THEN StorageValue(updates, f)
        ELSE IF f \in {"updated_at", "last_reading"} THEN t
        ELSE row[f]]

\* UPDATE sensors SET ... WHERE id = ?, and the commit
UpdateRows(table, sensor_id, updates, t) ==
    {IF row.id = sensor_id THEN UpdatedRow(row, updates, t) ELSE row : row \in table}

\* a DELETE without its WHERE
DeleteEveryRow(table, sensor_id) == {}

\* DELETE FROM sensors WHERE id = ?, and the commit
DeleteRows(table, sensor_id) == {row \in table : row.id # sensor_id}

\* a row count that reports a match whatever the table holds
AlwaysOneRow(table, sensor_id) == 1

\* cursor.rowcount of that DELETE
RowCount(table, sensor_id) == Cardinality({row \in table : row.id = sensor_id})

(* ------------------------ the correlation context --------------------- *)

\* a module-level field shared by every task, instead of a ContextVar
SharedFieldSet(c, r, v) == [q \in DOMAIN c |-> v]

\* correlation_id_var.set in the context of task r
CorrelationIdVarSet(c, r, v) == [c EXCEPT ![r] = v]

\* correlation_id_var.get in the context of task r
CorrelationIdVarGet(c, r) == c[r]

(* ----------------------------- the auth gate -------------------------- *)

\* a gate that lets any token through to a store that holds sensors
AcceptedWhenStored(t) == t = ApiToken \/ db # {}

\* a gate that compares nothing
AnyTokenAccepted(t) == TRUE

\* verify_token: credentials.credentials != settings.api_token raises 401
TokenAccepted(t) == t = ApiToken

(* ------------------------------ requests ------------------------------ *)

\* a connection dependency that returns its connection and never closes it
NeverClosed(r) == "exit"

\* after the route: the connection's finally, when the route has one
AfterRoute(r) == IF conn[r] = "open" THEN "close" ELSE "exit"

\* the route ends with this response
Respond(r, answer) ==
    /\ resp' = [resp EXCEPT ![r] = answer]
    /\ pc' = [pc EXCEPT ![r] = AfterRoute(r)]

\* LoggingMiddleware.dispatch up to call_next: a request arrives in a new task,
\* its correlation id is read from the header or generated, and bound.  A
\* generated id (uuid4) differs from every header and from the id generated
\* in any other task.
DispatchEntry(r, limit) ==
    /\ pc[r] = "idle"
    /\ nreq < limit
    /\ \E k \in Routers, header \in HeaderCids \cup {NoCid} :
        LET correlation_id ==
                IF header = NoCid THEN <<"uuid4", r>> ELSE header
        IN  /\ kind' = [kind EXCEPT ![r] = k]
            /\ cid' = [cid EXCEPT ![r] = correlation_id]
            /\ ctx' = CorrelationIdVarSet(ctx, r, correlation_id)
            /\ pc' = [pc EXCEPT ![r] = IF k = "health" THEN "auth" ELSE "deps"]
    /\ nreq' = nreq + 1
    /\ UNCHANGED <<db, now, allocated, tok, conn, loc, resp, logs, calls>>

\* get_db_connection up to its yield (the first dependency of a sensors route)
OpenConnection(r) ==
    /\ pc[r] = "deps"
    /\ conn' = [conn EXCEPT ![r] = "open"]
    /\ pc' = [pc EXCEPT ![r] = "auth"]
    /\ UNCHANGED <<db, now, nreq, allocated, kind, tok, cid, ctx, loc, resp, logs, calls>>

\* HTTPBearer and verify_token (the last dependency of every route)
VerifyToken(r) ==
    /\ pc[r] = "auth"
    /\ \E t \in Tokens :
        /\ tok' = [tok EXCEPT ![r] = t]
        /\ IF t = NoCredentials
           THEN \E status \in NotAuthenticated : Respond(r, Answer(status, <<>>))
           ELSE IF ~TokenAccepted(t)
           THEN Respond(r, Answer(HTTP_401_UNAUTHORIZED, <<>>))
           ELSE /\ pc' = [pc EXCEPT ![r] = "route"]
                /\ UNCHANGED resp
    /\ UNCHANGED <<db, now, nreq, allocated, kind, cid, ctx, conn, loc, logs, calls>>

\* GET /health
Health(r) ==
    /\ pc[r] = "route"
    /\ kind[r] = "health"
    /\ Respond(r, Answer(200, <<[status |-> "ok", service |-> "python"]>>))
    /\ UNCHANGED <<db, now, nreq, allocated, kind, tok, cid, ctx, conn, loc, logs, calls>>

\* GET /sensors
ListSensors(r) ==
    /\ pc[r] = "route"
    /\ kind[r] = "sensors"
    /\ kind' = [kind EXCEPT ![r] = "list"]
    /\ LET sensors == GetAll(db)
       IN  Respond(r, Answer(200, <<[sensors |-> sensors, count |-> Len(sensors)]>>))
    /\ calls' = [calls EXCEPT ![r] = @ + 1]
    /\ UNCHANGED <<db, now, nreq, allocated, tok, cid, ctx, conn, loc, logs>>

\* GET /sensors/{sensor_id}
GetSensor(r) ==
    /\ pc[r] = "route"
    /\ kind[r] = "sensors"
    /\ kind' = [kind EXCEPT ![r] = "get"]
    /\ \E sensor_id \in PathIds :
        LET sensor == GetById(db, sensor_id)
        IN  /\ loc' = [loc EXCEPT ![r].sid = sensor_id]
            /\ IF sensor = <<>>
               THEN Respond(r, Answer(HTTP_404_NOT_FOUND, <<>>))
               ELSE Respond(r, Answer(200, sensor))
    /\ calls' = [calls EXCEPT ![r] = @ + 1]
    /\ UNCHANGED <<db, now, nreq, allocated, tok, cid, ctx, conn, logs>>

\* POST /sensors: the validation of the body (a body SensorCreate refuses is
\* answered 422 and create_sensor is not called), then SensorRepository.create:
\* the id scan, now, the value
CreateScan(r, sensors) ==
    /\ pc[r] = "route"
    /\ kind[r] = "sensors"
    /\ kind' = [kind EXCEPT ![r] = "create"]
    /\ \E sensor \in sensors \cup InvalidCreateInputs :
        IF ~ValidSensorCreate(sensor)
        THEN /\ Respond(r, Answer(HTTP_422_UNPROCESSABLE_ENTITY, <<>>))
             /\ loc' = [loc EXCEPT ![r].body = <<sensor>>]
             /\ UNCHANGED calls
        ELSE /\ loc' = [loc EXCEPT ![r] =
                           [sid |-> FormatId(MaxNum(db) + 1), t |-> now,
                            body |-> <<sensor>>]]
             /\ pc' = [pc EXCEPT ![r] = "create_insert"]
             /\ calls' = [calls EXCEPT ![r] = @ + 1]
             /\ UNCHANGED resp
    /\ UNCHANGED <<db, now, nreq, allocated, tok, cid, ctx, conn, logs>>

\* SensorRepository.create: the INSERT and the commit; an id that is taken,
\* or a row that fails a CHECK, raises sqlite3.IntegrityError, which nothing
\* catches
CreateInsert(r) ==
    /\ pc[r] = "create_insert"
    /\ calls' = [calls EXCEPT ![r] = @ + 1]
    /\ IF /\ PrimaryKeyFree(db, loc[r].sid)
          /\ CheckPasses(NewRow(loc[r].sid, loc[r].body[1], loc[r].t))
       THEN /\ db' = db \cup {NewRow(loc[r].sid, loc[r].body[1], loc[r].t)}
            /\ allocated' = Append(allocated, CastInteger(loc[r].sid))
            /\ pc' = [pc EXCEPT ![r] = "create_readback"]
            /\ UNCHANGED resp
       ELSE /\ Respond(r, Unhandled(500))
            /\ UNCHANGED <<db, allocated>>
    /\ UNCHANGED <<now, nreq, kind, tok, cid, ctx, conn, loc, logs>>

\* SensorRepository.create: return self.get_by_id(new_id); a None is not a
\* Sensor, and the response model refuses it
CreateReadback(r) ==
    /\ pc[r] = "create_readback"
    /\ LET created == GetById(db, loc[r].sid)
       IN  IF created = <<>>
           THEN Respond(r, Unhandled(500))
           ELSE Respond(r, Answer(HTTP_201_CREATED, created))
    /\ calls' = [calls EXCEPT ![r] = @ + 1]
    /\ UNCHANGED <<db, now, nreq, allocated, kind, tok, cid, ctx, conn, loc, logs>>

\* PUT /sensors/{sensor_id}: the validation of the body (a body SensorUpdate
\* refuses is answered 422 and update_sensor is not called), then
\* SensorRepository.update: the existence check, update_fields, the early
\* return, now
UpdatePrepare(r, inputs) ==
    /\ pc[r] = "route"
    /\ kind[r] = "sensors"
    /\ kind' = [kind EXCEPT ![r] = "update"]
    /\ \E sensor_id \in PathIds, updates \in inputs \cup InvalidUpdateInputs :
        LET existing == GetById(db, sensor_id)
        IN  IF ~ValidSensorUpdate(updates)
            THEN /\ Respond(r, Answer(HTTP_422_UNPROCESSABLE_ENTITY, <<>>))
                 /\ loc' = [loc EXCEPT ![r] =
                               [sid |-> sensor_id, t |-> 0, body |-> <<updates>>]]
                 /\ UNCHANGED calls
            ELSE IF existing = <<>>
            THEN /\ Respond(r, Answer(HTTP_404_NOT_FOUND, <<>>))
                 /\ loc' = [loc EXCEPT ![r].sid = sensor_id]
                 /\ calls' = [calls EXCEPT ![r] = @ + 1]
            ELSE IF NothingToUpdate(updates)
            THEN /\ Respond(r, Answer(200, existing))
                 /\ loc' = [loc EXCEPT ![r] =
                               [sid |-> sensor_id, t |-> 0, body |-> <<updates>>]]
                 /\ calls' = [calls EXCEPT ![r] = @ + 1]
            ELSE /\ loc' = [loc EXCEPT ![r] =
                               [sid |-> sensor_id, t |-> now, body |-> <<updates>>]]
                 /\ pc' = [pc EXCEPT ![r] = "update_write"]
                 /\ calls' = [calls EXCEPT ![r] = @ + 1]
                 /\ UNCHANGED resp
    /\ UNCHANGED <<db, now, nreq, allocated, tok, cid, ctx, conn, logs>>

\* SensorRepository.update: the UPDATE and the commit; a row that fails a
\* CHECK raises sqlite3.IntegrityError, which nothing catches
UpdateWrite(r) ==
    /\ pc[r] = "update_write"
    /\ LET written == UpdateRows(db, loc[r].sid, loc[r].body[1], loc[r].t)
       IN  IF \A row \in written : CheckPasses(row)
           THEN /\ db' = written
                /\ pc' = [pc EXCEPT ![r] = "update_readback"]
                /\ UNCHANGED resp
           ELSE /\ Respond(r, Unhandled(500))
                /\ UNCHANGED db
    /\ calls' = [calls EXCEPT ![r] = @ + 1]
    /\ UNCHANGED <<now, nreq, allocated, kind, tok, cid, ctx, conn, loc, logs>>

\* SensorRepository.update: return self.get_by_id(sensor_id), and the route's
\* 404 for None
UpdateReadback(r) ==
    /\ pc[r] = "update_readback"
    /\ LET updated == GetById(db, loc[r].sid)
       IN  IF updated = <<>>
           THEN Respond(r, Answer(HTTP_404_NOT_FOUND, <<>>))
           ELSE Respond(r, Answer(200, updated))
    /\ calls' = [calls EXCEPT ![r] = @ + 1]
    /\ UNCHANGED <<db, now, nreq, allocated, kind, tok, cid, ctx, conn, loc, logs>>

\* DELETE /sensors/{sensor_id}, SensorRepository.delete
DeleteSensor(r) ==
    /\ pc[r] = "route"
    /\ kind[r] = "sensors"
    /\ kind' = [kind EXCEPT ![r] = "delete"]
    /\ \E sensor_id \in PathIds :
        LET deleted == RowCount(db, sensor_id) > 0
        IN  /\ db' = DeleteRows(db, sensor_id)
            /\ loc' = [loc EXCEPT ![r].sid = sensor_id]
            /\ IF deleted
               THEN Respond(r, Answer(HTTP_204_NO_CONTENT, <<>>))
               ELSE Respond(r, Answer(HTTP_404_NOT_FOUND, <<>>))
    /\ calls' = [calls EXCEPT ![r] = @ + 1]
    /\ UNCHANGED <<now, nreq, allocated, tok, cid, ctx, conn, logs>>

\* get_db_connection after its yield: finally conn.close()
CloseConnection(r) ==
    /\ pc[r] = "close"
    /\ conn' = [conn EXCEPT ![r] = "closed"]
    /\ pc' = [pc EXCEPT ![r] = "exit"]
    /\ UNCHANGED <<db, now, nreq, allocated, kind, tok, cid, ctx, loc, resp, logs, calls>>

\* LoggingMiddleware.dispatch after call_next: the log record (its
\* correlation_id read from the context by CorrelationIdFilter) and the
\* response header.  An exception raised through call_next skips both.
DispatchExit(r) ==
    /\ pc[r] = "exit"
    /\ IF resp[r].raised
       THEN UNCHANGED <<resp, logs>>
       ELSE /\ logs' = [logs EXCEPT ![r] =
                           Append(@, [correlation_id |-> CorrelationIdVarGet(ctx, r),
                                      status |-> resp[r].status])]
            /\ resp' = [resp EXCEPT ![r].xcid = cid[r]]
    /\ pc' = [pc EXCEPT ![r] = "done"]
    /\ UNCHANGED <<db, now, nreq, allocated, kind, tok, cid, ctx, conn, loc, calls>>

\* the response is sent and the task, with its context, ends
Finish(r) ==
    /\ pc[r] = "done"
    /\ pc' = [pc EXCEPT ![r] = "idle"]
    /\ kind' = [kind EXCEPT ![r] = "none"]
    /\ tok' = [tok EXCEPT ![r] = NoCredentials]
    /\ cid' = [cid EXCEPT ![r] = NoCid]
    /\ ctx' = [ctx EXCEPT ![r] = NoCid]
    /\ conn' = [conn EXCEPT ![r] = "none"]
    /\ loc' = [loc EXCEPT ![r] = NoLoc]
    /\ resp' = [resp EXCEPT ![r] = NoResp]
    /\ logs' = [logs EXCEPT ![r] = <<>>]
    /\ calls' = [calls EXCEPT ![r] = 0]
    /\ UNCHANGED <<db, now, nreq, allocated>>

\* time passes
Tick ==
    /\ now < MaxTime
    /\ now' = now + 1
    /\ UNCHANGED <<db, nreq, allocated, pc, kind, tok, cid, ctx, conn, loc, resp, logs, calls>>

\* a step of request r, its create body drawn from sensors and its update body
\* from inputs, while fewer than limit requests have been received
Step(r, sensors, inputs, limit) ==
    \/ DispatchEntry(r, limit)
    \/ OpenConnection(r)
    \/ VerifyToken(r)
    \/ Health(r)
    \/ ListSensors(r)
    \/ GetSensor(r)
    \/ CreateScan(r, sensors)
    \/ CreateInsert(r)
    \/ CreateReadback(r)
    \/ UpdatePrepare(r, inputs)
    \/ UpdateWrite(r)
    \/ UpdateReadback(r)
    \/ DeleteSensor(r)
    \/ CloseConnection(r)
    \/ DispatchExit(r)
    \/ Finish(r)

\* requests handled concurrently: their steps interleave
Next == Tick \/ \E r \in Reqs : Step(r, CreateInputs, UpdateInputs, MaxRequests)

Spec == Init /\ [][Next]_vars

\* requests handled one at a time, as a test client sends them
NextSeq == Tick \/ Step(1, WideCreateInputs, WideUpdateInputs, MaxSerialRequests)

SpecSeq == Init /\ [][NextSeq]_vars

(* --------------------------- a seeded store --------------------------- *)

\* the suffixes of the ids in the seed file
SeedSuffixes == {1, 2, 3}

\* seed_from_json: the row inserted for a sensor of the seed file; created_at
\* and updated_at are the instant of the seeding
SeedRow(n) ==
    [id |-> FormatId(n), name |-> "Seeded", type |-> "humidity",
     location |-> "cellar", value |-> ExactFloat(0, 65), unit |-> "percent",
     status |-> "active", last_reading |-> 0, created_at |-> 0, updated_at |-> 0]

\* init_database on an empty table, with some seed file or none
SeededStores == {{SeedRow(n) : n \in S} : S \in SUBSET SeedSuffixes}

InitSeeded ==
    /\ db \in SeededStores
    /\ now = 0
    /\ nreq = 0
    /\ allocated = <<>>
    /\ pc = [r \in Reqs |-> "idle"]
    /\ kind = [r \in Reqs |-> "none"]
    /\ tok = [r \in Reqs |-> NoCredentials]
    /\ cid = [r \in Reqs |-> NoCid]
    /\ ctx = [r \in Reqs |-> NoCid]
    /\ conn = [r \in Reqs |-> "none"]
    /\ loc = [r \in Reqs |-> NoLoc]
    /\ resp = [r \in Reqs |-> NoResp]
    /\ logs = [r \in Reqs |-> <<>>]
    /\ calls = [r \in Reqs |-> 0]

\* requests handled one at a time on a store that was seeded
NextSeeded == Tick \/ Step(1, CreateInputs, UpdateInputs, MaxSeededRequests)

SpecSeeded == InitSeeded /\ [][NextSeeded]_vars

\* the store seeded with sensor-001 and the last sensor whose suffix fits the
\* width of the id format, sensor-999
InitLastPadded ==
    /\ db = {SeedRow(1), SeedRow(10^IdWidth - 1)}
    /\ now = 0
    /\ nreq = 0
    /\ allocated = <<>>
    /\ pc = [r \in Reqs |-> "idle"]
    /\ kind = [r \in Reqs |-> "none"]
    /\ tok = [r \in Reqs |-> NoCredentials]
    /\ cid = [r \in Reqs |-> NoCid]
    /\ ctx = [r \in Reqs |-> NoCid]
    /\ conn = [r \in Reqs |-> "none"]
    /\ loc = [r \in Reqs |-> NoLoc]
    /\ resp = [r \in Reqs |-> NoResp]
    /\ logs = [r \in Reqs |-> <<>>]
    /\ calls = [r \in Reqs |-> 0]

\* requests handled one at a time on that store: the next create allocates a
\* suffix of four digits
SpecLastPadded == InitLastPadded /\ [][NextSeeded]_vars

\* the store seeded with one sensor
InitRacing == InitSeeded /\ db = {SeedRow(1)}

\* requests handled concurrently on that store
NextRacing ==
    Tick \/ \E r \in Reqs : Step(r, CreateInputs, UpdateInputs, MaxRacingRequests)

SpecRacing == InitRacing /\ [][NextRacing]_vars

(* --------------------- the scenario of the tests ---------------------- *)

\* the body test_create_sensor posts, and the body test_update_sensor puts
ScenarioSensor ==
    [name |-> "Test Sensor", type |-> "temperature", location |-> "test_room",
     value |-> FloatV(145), unit |-> "fahrenheit", status |-> "active"]

ScenarioUpdate ==
    [set |-> {"value", "status"}, nulls |-> {},
     val |-> [name |-> "Renamed", type |-> "motion", location |-> "attic",
              value |-> FloatV(151), unit |-> "celsius", status |-> "inactive"]]

\* the requests of the CRUD tests, sent one after the other to one fresh store
\* with the token: the route of each, and the id in its path
Script ==
    <<[kind |-> "list", sid |-> <<>>],
      [kind |-> "create", sid |-> <<>>],
      [kind |-> "get", sid |-> FormatId(2)],
      [kind |-> "update", sid |-> FormatId(2)],
      [kind |-> "delete", sid |-> FormatId(2)],
      [kind |-> "get", sid |-> FormatId(1)],
      [kind |-> "update", sid |-> FormatId(1)],
      [kind |-> "list", sid |-> <<>>],
      [kind |-> "delete", sid |-> FormatId(1)],
      [kind |-> "get", sid |-> FormatId(1)]>>

\* the request in flight is the one the script sends at this point
OnScript ==
    /\ kind[1] \in {"none", "sensors"} \cup {Script[n].kind : n \in {nreq} \ {0}}
    /\ pc[1] \in {"close", "exit", "done"} => tok[1] = ApiToken
    /\ kind[1] \in {"get", "update", "delete"} => loc[1].sid = Script[nreq].sid
    /\ resp[1].status # HTTP_422_UNPROCESSABLE_ENTITY

\* the steps of the requests of the script (none of them is a health request)
NextScenario ==
    \/ Tick
    \/ DispatchEntry(1, Len(Script)) /\ OnScript'
    \/ OpenConnection(1)
    \/ VerifyToken(1) /\ OnScript'
    \/ ListSensors(1) /\ OnScript'
    \/ GetSensor(1) /\ OnScript'
    \/ CreateScan(1, {ScenarioSensor}) /\ OnScript'
    \/ CreateInsert(1)
    \/ CreateReadback(1)
    \/ UpdatePrepare(1, {ScenarioUpdate}) /\ OnScript'
    \/ UpdateWrite(1)
    \/ UpdateReadback(1)
    \/ DeleteSensor(1) /\ OnScript'
    \/ CloseConnection(1)
    \/ DispatchExit(1)
    \/ Finish(1)

SpecScenario == Init /\ [][NextScenario]_vars

(* ------------------------------- claims ------------------------------- *)

Ids(table) == {row.id : row \in table}

\* C1 (as claimed): the suffixes allocated by successive creates on a store
\* that starts empty start at 1 and are strictly increasing, so an id once
\* allocated is never allocated again, deletions included.
C1_AllocatedStrictlyIncreasing ==
    \A i \in 1..Len(allocated) :
        IF i = 1 THEN allocated[i] = 1 ELSE allocated[i] > allocated[i - 1]

\* C2: in every reachable state, whatever the interleaving of create, update
\* and delete, no two rows of the table have the same id.
C2_UniqueIds == \A a \in db, b \in db : a.id = b.id => a = b

\* two creates computed the same id: one row is stored and the other create
\* was refused
C2_Witness ==
    \E r \in Reqs, q \in Reqs :
        /\ r # q
        /\ kind[r] = "create" /\ kind[q] = "create"
        /\ loc[r].sid = loc[q].sid
        /\ pc[q] = "create_readback"
        /\ resp[r].raised
        /\ loc[r].sid \in Ids(db)

\* C3: a sensors request that presented no token, or a token that is not the
\* configured secret, executes no repository statement, no step of it changes
\* the table, and it ends rejected as unauthorized.
Rejected(r) == pc[r] \in {"close", "exit", "done"} /\ tok[r] # ApiToken

C3_UnauthorizedNeverReachStore ==
    [][\A r \in Reqs :
          /\ tok'[r] # ApiToken =>
                /\ calls'[r] = 0
                /\ pc'[r] \notin {"route", "create_insert", "create_readback",
                                  "update_write", "update_readback"}
          /\ Rejected(r)' =>
                /\ pc'[r] # pc[r] => db' = db
                /\ resp'[r].status \in NotAuthenticated
                /\ ~resp'[r].raised]_vars

\* a sensors request with a wrong token is answered while the table holds a row
C3_Witness ==
    \E r \in Reqs :
        /\ pc[r] = "done"
        /\ kind[r] = "sensors"
        /\ tok[r] = "invalid-token"
        /\ conn[r] = "closed"
        /\ db # {}

\* C4 (as claimed): every completed request, whatever its outcome, carries in
\* its response the correlation id bound at its entry, and exactly one log
\* record with that correlation id was emitted for it.
C4_EveryOutcomeTaggedAndLogged ==
    \A r \in Reqs :
        pc[r] = "done" =>
            /\ resp[r].xcid = cid[r]
            /\ Len(logs[r]) = 1
            /\ logs[r][1].correlation_id = cid[r]

\* C5: the correlation id read in the context of a request, and written to
\* its log record, is the id bound at that request's entry, whatever other
\* requests are in flight; a task that has ended leaves nothing to read.
C5_ContextIsolated ==
    \A r \in Reqs :
        /\ pc[r] = "idle" => CorrelationIdVarGet(ctx, r) = NoCid
        /\ pc[r] # "idle" =>
              /\ CorrelationIdVarGet(ctx, r) = cid[r]
              /\ \A i \in 1..Len(logs[r]) : logs[r][i].correlation_id = cid[r]

\* a request has logged while another, with another correlation id, is in flight
C5_Witness ==
    \E r \in Reqs, q \in Reqs :
        /\ r # q
        /\ pc[r] = "done" /\ Len(logs[r]) = 1
        /\ pc[q] \notin {"idle", "done"}
        /\ cid[q] # cid[r]

\* the steps of update and create that the claims below speak of
UpdateFound(r) ==
    /\ pc[r] = "route" /\ kind'[r] = "update" /\ loc'[r].body # <<>>
    /\ resp'[r].status # HTTP_422_UNPROCESSABLE_ENTITY
UpdateWritten(r) == pc[r] = "update_write" /\ pc'[r] = "update_readback"
CreateScanned(r) ==
    pc[r] = "route" /\ kind'[r] = "create" /\ pc'[r] = "create_insert"
CreateInserted(r) == pc[r] = "create_insert" /\ pc'[r] = "create_readback"

\* the table after an update of sensor_id that changes the given fields to the
\* values of the body and nothing else.  A stored field is never null, so a
\* field supplied as null is not "changed to the supplied value".
ChangesExactly(old, new, sensor_id, updates, fields) ==
    /\ Ids(new) = Ids(old)
    /\ \A row \in old : row.id # sensor_id => row \in new
    /\ \A row \in old : row.id = sensor_id =>
          \E changed \in new :
              /\ changed.id = sensor_id
              /\ changed.created_at = row.created_at
              /\ \A f \in FieldNames :
                    IF f \in fields
                    THEN /\ f \notin updates.nulls
                         /\ changed[f] =
                              IF f = "value"
                              THEN ConvertValueForStorage(updates.val[f])
                              ELSE updates.val[f]
                    ELSE changed[f] = row[f]

\* the table before and after the whole of an update by request r: either the
\* early return (nothing written) or the UPDATE
UpdateChangesExactly(r, present(_)) ==
    /\ (UpdateFound(r) /\ pc'[r] # "update_write") =>
          ChangesExactly(db, db', loc'[r].sid, loc'[r].body[1],
                         present(loc'[r].body[1]))
    /\ UpdateWritten(r) =>
          ChangesExactly(db, db', loc[r].sid, loc[r].body[1],
                         present(loc[r].body[1]))

FieldsSet(updates) == updates.set
FieldsSetNotNull(updates) == {f \in updates.set : f \notin updates.nulls}

\* C6 (as claimed): update on an existing sensor changes exactly the fields
\* present in the input to the supplied values; absent fields, id, created_at
\* and every other sensor keep their values.
C6_ChangesFieldsPresent ==
    [][\A r \in Reqs : UpdateChangesExactly(r, FieldsSet)]_vars

\* C6 (amended): update on an existing sensor changes exactly the fields
\* present in the input with a value that is not null, to the supplied value
\* (value as the floating-point number it normalises to); a field absent or
\* null, id, created_at and every other sensor keep their values.
C6_ChangesFieldsNotNull ==
    [][\A r \in Reqs : UpdateChangesExactly(r, FieldsSetNotNull)]_vars

\* an update of value and status has been written and answered: the name is
\* the one created, value and status are those supplied
C6_Witness ==
    \E r \in Reqs :
        /\ pc[r] = "done" /\ kind[r] = "update" /\ resp[r].status = 200
        /\ loc[r].body[1].set = {"value", "status"}
        /\ \E row \in db :
              /\ row.id = loc[r].sid
              /\ row.name = "Test Sensor"
              /\ row.status = "error"
              /\ row.value = ExactFloat(0, 0)

\* C7: update with an empty field set on an existing sensor writes nothing,
\* and answers with the record as stored, timestamps included.
C7_EmptyUpdateIsNoOp ==
    [][\A r \in Reqs :
          (UpdateFound(r) /\ loc'[r].body[1].set = {}) =>
              /\ db' = db
              /\ pc'[r] = "close"
              /\ resp'[r].status = 200
              /\ ~resp'[r].raised
              /\ resp'[r].body # <<>>
              /\ resp'[r].body[1] \in db
              /\ resp'[r].body[1].id = loc'[r].sid]_vars

\* an empty update was answered after the clock moved past the record's
\* updated_at, which a refresh would have changed
C7_Witness ==
    \E r \in Reqs :
        /\ pc[r] = "done" /\ kind[r] = "update" /\ resp[r].status = 200
        /\ loc[r].body # <<>>
        /\ loc[r].body[1].set = {}
        /\ resp[r].body[1].updated_at < now
        /\ resp[r].body[1] \in db

\* create and update and the timestamps, an update refreshing them when the
\* body has a field among wanted(body)
Timestamps(wanted(_)) ==
    /\ \A r \in Reqs :
          /\ CreateScanned(r) => loc'[r].t = now
          /\ CreateInserted(r) =>
                \E row \in db' \ db :
                    /\ row.id = loc[r].sid
                    /\ row.created_at = loc[r].t
                    /\ row.updated_at = loc[r].t
                    /\ row.last_reading = loc[r].t
          /\ (UpdateFound(r) /\ wanted(loc'[r].body[1]) # {}) =>
                /\ pc'[r] = "update_write"
                /\ loc'[r].t = now
          /\ UpdateWritten(r) =>
                \A row \in db' :
                    row.id = loc[r].sid =>
                        row.updated_at = loc[r].t /\ row.last_reading = loc[r].t
    /\ \A a \in db, b \in db' : a.id = b.id => a.created_at = b.created_at

\* C8 (as claimed): create sets created_at, updated_at and last_reading to the
\* creation instant; created_at never changes while the sensor exists; every
\* update of an existing sensor that supplies at least one field sets
\* updated_at and last_reading to the instant of the update.
C8_RefreshedWhenAnyFieldSupplied == [][Timestamps(FieldsSet)]_vars

\* C8 (amended): the same, for every update that supplies at least one field
\* with a value that is not null.
C8_RefreshedWhenAnyFieldNotNull == [][Timestamps(FieldsSetNotNull)]_vars

\* an answered update left a row created earlier with the update's instant in
\* updated_at and last_reading
C8_Witness ==
    \E r \in Reqs :
        /\ pc[r] = "done" /\ kind[r] = "update" /\ resp[r].status = 200
        /\ \E row \in db :
              /\ row.id = loc[r].sid
              /\ row.created_at < row.updated_at
              /\ row.updated_at = loc[r].t
              /\ row.last_reading = loc[r].t

\* C9: delete leaves no row with the id; on an id that is not in the table
\* (deleted before, or never there) it changes nothing and reports not found
\* (404) without an error, and so does get; an id that is not in the table
\* comes back only by a create.
C9_NotFoundAfterDelete ==
    [][/\ \A r \in Reqs :
            /\ (pc[r] = "route" /\ kind'[r] = "delete") =>
                  /\ loc'[r].sid \notin Ids(db')
                  /\ ~resp'[r].raised
                  /\ loc'[r].sid \in Ids(db) => resp'[r].status = HTTP_204_NO_CONTENT
                  /\ loc'[r].sid \notin Ids(db) =>
                        db' = db /\ resp'[r].status = HTTP_404_NOT_FOUND
            /\ (pc[r] = "route" /\ kind'[r] = "get") =>
                  /\ db' = db
                  /\ loc'[r].sid \notin Ids(db) =>
                        /\ resp'[r].status = HTTP_404_NOT_FOUND
                        /\ resp'[r].body = <<>>
                        /\ ~resp'[r].raised
       /\ \A id \in Ids(db') \ Ids(db) :
            \E r \in Reqs : CreateInserted(r) /\ loc[r].sid = id]_vars

\* a delete of an id that was allocated and deleted before is answered 404
C9_Witness ==
    \E r \in Reqs :
        /\ pc[r] = "done" /\ kind[r] = "delete"
        /\ resp[r].status = HTTP_404_NOT_FOUND
        /\ loc[r].sid \notin Ids(db)
        /\ \E i \in 1..Len(allocated) : FormatId(allocated[i]) = loc[r].sid

\* C10 (as claimed): GET /health without credentials is answered 200 with
\* {status: "ok", service: "python"}.
C10_HealthWithoutCredentials ==
    \A r \in Reqs :
        (pc[r] = "done" /\ kind[r] = "health" /\ tok[r] = NoCredentials) =>
            /\ resp[r].status = 200
            /\ resp[r].body = <<[status |-> "ok", service |-> "python"]>>

\* C11: a create or update whose type or status is outside the enumerations
\* is answered 422 before any statement of the repository runs: no step of the
\* request changes the table or the record of allocated ids, so the id scan of
\* a later create reads what it would have read; no row ever holds a type or
\* a status outside the enumerations.
OutsideEnums(body) ==
    body.type \notin SensorType \/ body.status \notin SensorStatus

UpdateOutsideEnums(updates) ==
    \/ "type" \in updates.set \ updates.nulls /\ updates.val.type \notin SensorType
    \/ "status" \in updates.set \ updates.nulls /\ updates.val.status \notin SensorStatus

C11_InvalidEnumRejectedBeforeStore ==
    [][/\ \A r \in Reqs :
            /\ (/\ pc[r] = "route"
                /\ \/ kind'[r] = "create" /\ OutsideEnums(loc'[r].body[1])
                   \/ /\ kind'[r] = "update" /\ loc'[r].body # <<>>
                      /\ UpdateOutsideEnums(loc'[r].body[1])) =>
                  /\ resp'[r].status = HTTP_422_UNPROCESSABLE_ENTITY
                  /\ ~resp'[r].raised
                  /\ resp'[r].body = <<>>
                  /\ pc'[r] = "close"
                  /\ calls'[r] = 0
            /\ (resp[r].status = HTTP_422_UNPROCESSABLE_ENTITY /\ pc'[r] # pc[r]) =>
                  /\ db' = db
                  /\ allocated' = allocated
                  /\ calls[r] = 0 /\ calls'[r] = 0
       /\ \A row \in db' : row.type \in SensorType /\ row.status \in SensorStatus]_vars

\* a create with type "invalid_type" was answered 422 while the table held a
\* row, and the next id to allocate is still the one after that row's
C11_Witness ==
    \E r \in Reqs :
        /\ pc[r] = "done" /\ kind[r] = "create"
        /\ resp[r].status = HTTP_422_UNPROCESSABLE_ENTITY
        /\ loc[r].body[1].type = "invalid_type"
        /\ Ids(db) = {FormatId(1)}
        /\ allocated = <<1>>
        /\ MaxNum(db) + 1 = 2

\* C12: for the requests of the script, all authorized: a list is answered
\* 200 with the sensors of the store, the create 201 with the created sensor
\* and its id, get, update and delete of an id that is not in the store 404
\* with the store unchanged, the get of the created id 200 with the created
\* field values, its update {value, status} 200 with the new value and status
\* and the old name, its delete 204, and the get after that 404.
ScenarioStatus == <<200, 201, 404, 404, 404, 200, 200, 200, 204, 404>>

CreatedRow(t) == NewRow(FormatId(1), ScenarioSensor, t)

ChangedRow(t, u) ==
    [CreatedRow(t) EXCEPT !.value = Halves(0, 151), !.status = "inactive",
                          !.updated_at = u, !.last_reading = u]

C12_OutcomesMapToResponses ==
    /\ nreq \in {1} => db = {}
    /\ nreq \in 3..6 => \E t \in 0..MaxTime : db = {CreatedRow(t)}
    /\ pc[1] \in {"close", "exit", "done"} =>
          /\ ~resp[1].raised
          /\ resp[1].status = ScenarioStatus[nreq]
          /\ nreq = 1 => resp[1].body = <<[sensors |-> <<>>, count |-> 0]>>
          /\ nreq = 2 =>
                /\ resp[1].body = <<CreatedRow(loc[1].t)>>
                /\ db = {CreatedRow(loc[1].t)}
          /\ nreq \in {3, 4, 5} => resp[1].body = <<>>
          /\ nreq = 6 => resp[1].body # <<>> /\ db = {resp[1].body[1]}
          /\ nreq = 7 =>
                /\ \E t \in 0..MaxTime : resp[1].body = <<ChangedRow(t, loc[1].t)>>
                /\ db = {resp[1].body[1]}
          /\ nreq = 8 =>
                /\ \E t \in 0..MaxTime, u \in 0..MaxTime :
                      resp[1].body = <<[sensors |-> <<ChangedRow(t, u)>>, count |-> 1]>>
                /\ db = {resp[1].body[1].sensors[1]}
          /\ nreq \in {9, 10} => resp[1].body = <<>> /\ db = {}

\* the last request of the script, the get of the deleted id, is answered 404
C12_Witness ==
    /\ nreq = Len(Script)
    /\ pc[1] = "done"
    /\ kind[1] = "get"
    /\ resp[1].status = HTTP_404_NOT_FOUND
    /\ loc[1].sid = FormatId(1)
    /\ allocated = <<1>>
    /\ db = {}

\* C13: create on a store whose ids have the largest numeric suffix m gives
\* the new sensor the id with suffix m + 1, and suffix 1 on a store without
\* ids; the suffix is that of the rows present when create runs, whatever
\* ids were there before.
Suffixes(table) == {CastInteger(row.id) : row \in table}

C13_NextIdIsMaxPlusOne ==
    [][\A r \in Reqs :
          /\ CreateScanned(r) =>
                /\ Suffixes(db) = {} => loc'[r].sid = FormatId(1)
                /\ \A m \in Suffixes(db) :
                      (\A n \in Suffixes(db) : n <= m) => loc'[r].sid = FormatId(m + 1)
          /\ CreateInserted(r) =>
                /\ Suffixes(db') \ Suffixes(db) = {CastInteger(loc[r].sid)}
                /\ \A n \in Suffixes(db) : n < CastInteger(loc[r].sid)
                /\ \/ CastInteger(loc[r].sid) - 1 \in Suffixes(db)
                   \/ Suffixes(db) = {} /\ CastInteger(loc[r].sid) = 1]_vars

\* a create on the store seeded with sensor-001 and sensor-003 was answered
\* with sensor-004
C13_Witness ==
    \E r \in Reqs :
        /\ pc[r] = "done" /\ kind[r] = "create"
        /\ resp[r].status = HTTP_201_CREATED
        /\ resp[r].body[1].id = FormatId(4)
        /\ Ids(db) = {FormatId(1), FormatId(3), FormatId(4)}

\* C14: list is answered 200 with exactly the sensors in the store, each
\* once, in ascending order of id, and with count the number of sensors
\* returned: nothing and 0 on an empty store, n sensors and count n on a store
\* of n rows.
C14_ListIsTheStoreInIdOrder ==
    [][\A r \in Reqs :
          (pc[r] = "route" /\ kind'[r] = "list") =>
              /\ resp'[r].status = 200
              /\ ~resp'[r].raised
              /\ db' = db
              /\ LET sensors == resp'[r].body[1].sensors
                     count == resp'[r].body[1].count
                 IN  /\ count = Len(sensors)
                     /\ Len(sensors) = Cardinality(db)
                     /\ {sensors[i] : i \in 1..Len(sensors)} = db
                     /\ \A i \in 1..Len(sensors), j \in 1..Len(sensors) :
                           i < j => TextLess(sensors[i].id, sensors[j].id)
                     /\ db = {} => sensors = <<>> /\ count = 0]_vars

\* a list was answered with the three seeded sensors and the one created
\* after them, in the order of their ids, and count 4
C14_Witness ==
    \E r \in Reqs :
        /\ pc[r] = "done" /\ kind[r] = "list"
        /\ resp[r].body[1].count = 4
        /\ [i \in 1..4 |-> resp[r].body[1].sensors[i].id]
               = <<FormatId(1), FormatId(2), FormatId(3), FormatId(4)>>
        /\ allocated = <<4>>

\* C15: what a request without credentials, or with a token that is not the
\* secret, is answered depends on the credential alone: in every state of the
\* store each rejection of that credential can be the answer, and nothing
\* else can, so the answer is an unauthorized rejection without a body (never
\* 404 or 200) whether or not the id the request names is in the store.
RejectionsOf(t) ==
    IF t = NoCredentials THEN {Answer(status, <<>>) : status \in NotAuthenticated}
    ELSE {Answer(HTTP_401_UNAUTHORIZED, <<>>)}

C15_RejectionIgnoresTheStore ==
    /\ [](\A r \in Reqs :
             pc[r] = "auth" =>
                 \A t \in Tokens \ {ApiToken} :
                     \A answer \in RejectionsOf(t) :
                         ENABLED (VerifyToken(r) /\ tok'[r] = t /\ resp'[r] = answer))
    /\ [][\A r \in Reqs :
             /\ (pc[r] = "auth" /\ pc'[r] # "auth" /\ tok'[r] # ApiToken) =>
                   /\ pc'[r] \in {"close", "exit"}
                   /\ resp'[r] \in RejectionsOf(tok'[r])
             /\ (Rejected(r) /\ pc'[r] \in {"close", "exit", "done"}) =>
                   /\ resp'[r].status = resp[r].status
                   /\ resp'[r].body = <<>>
                   /\ resp'[r].status \notin {200, HTTP_404_NOT_FOUND}]_vars

\* a request with a wrong token was answered 401 by a store that holds the
\* three seeded sensors, and so was one by the empty store
C15_Witness ==
    \E r \in Reqs :
        /\ pc[r] = "done" /\ kind[r] = "sensors"
        /\ tok[r] = "invalid-token"
        /\ resp[r].status = HTTP_401_UNAUTHORIZED
        /\ Cardinality(db) = 3
        /\ nreq = 1

\* the floating-point number equal to a value of a body
EqualFloat(v) ==
    IF v.kind = "bool" THEN (IF v = BoolV(TRUE) THEN Halves(0, 2) ELSE Halves(0, 0))
    ELSE IF v.kind = "int" THEN ExactFloat(v.hi, v.lo)
    ELSE Halves(v.hi, v.lo)

\* create and update persist, and return, the number equal to every value of
\* a body that is among wanted
StoredAsEqualFloat(wanted(_)) ==
    \A r \in Reqs :
        /\ (CreateInserted(r) /\ wanted(loc[r].body[1].value)) =>
              \E row \in db' \ db :
                  row.id = loc[r].sid /\ row.value = EqualFloat(loc[r].body[1].value)
        /\ (/\ pc[r] = "create_readback"
            /\ resp'[r].status = HTTP_201_CREATED
            /\ wanted(loc[r].body[1].value)) =>
              resp'[r].body[1].value = EqualFloat(loc[r].body[1].value)
        /\ (/\ UpdateWritten(r)
            /\ "value" \in UpdateFields(loc[r].body[1])
            /\ wanted(loc[r].body[1].val.value)) =>
              \A row \in db' :
                  row.id = loc[r].sid =>
                      row.value = EqualFloat(loc[r].body[1].val.value)
        /\ (/\ pc[r] = "update_readback"
            /\ resp'[r].status = 200
            /\ "value" \in UpdateFields(loc[r].body[1])
            /\ wanted(loc[r].body[1].val.value)) =>
              resp'[r].body[1].value = EqualFloat(loc[r].body[1].val.value)

AnyValue(v) == TRUE
UpToTwoTo53(v) == v.kind = "int" => (v.hi < 2^26 \/ (v.hi = 2^26 /\ v.lo = 0))

C17_ConcurrentCreatesGetOwnIds ==
    /\ \A r \in Reqs, q \in Reqs :
          (r # q /\ pc[r] = "create_insert" /\ pc[q] = "create_insert") =>
              loc[r].sid # loc[q].sid
    /\ \A r \in Reqs :
          (kind[r] = "create" /\ pc[r] \in {"close", "exit", "done"}
              /\ ValidSensorCreate(loc[r].body[1]) /\ calls[r] = 2) =>
              ~resp[r].raised

\* C18 (as claimed): whatever update or delete requests interleave, the
\* read-back of a create whose INSERT was committed returns the row that
\* create wrote: the allocated id, the supplied field values and the creation
\* timestamps; it is answered 201 with that row, never with no row and never
\* with a row another request has changed.
C18_CreateReturnsTheRowItWrote ==
    \A r \in Reqs :
        (kind[r] = "create" /\ pc[r] \in {"close", "exit", "done"} /\ calls[r] = 3) =>
            /\ ~resp[r].raised
            /\ resp[r].status = HTTP_201_CREATED
            /\ resp[r].body = <<NewRow(loc[r].sid, loc[r].body[1], loc[r].t)>>

\* C19 (as claimed): a statement that fails with an error of the storage
\* layer (here the INSERT, with sqlite3.IntegrityError) ends its request and
\* is not run again: the table is as it was, the answer is a 5xx without
\* sensor data, and when the request completes one log record with its
\* correlation id has been emitted for it.
C19_StorageErrorIsFatalAndLogged ==
    [][\A r \in Reqs :
          /\ (pc[r] = "create_insert" /\ resp'[r].raised) =>
                /\ db' = db
                /\ pc'[r] = "close"
                /\ resp'[r].status >= 500
                /\ resp'[r].body = <<>>
          /\ (resp[r].raised /\ pc'[r] # pc[r]) =>
                /\ db' = db
                /\ calls'[r] \in {0, calls[r]}
                /\ pc'[r] \notin {"route", "create_insert", "create_readback",
                                  "update_write", "update_readback"}
          /\ (resp[r].raised /\ calls[r] = 2 /\ pc'[r] = "done") =>
                /\ Len(logs'[r]) = 1
                /\ logs'[r][1].correlation_id = cid[r]]_vars

\* C20: a request of the sensors router runs its statements on a connection
\* it opened itself, and that connection is closed before the request leaves
\* the middleware, on every path: an answer of the route (2xx or 404), a
\* rejection by the gate or by the validation, and an error raised by a
\* statement; when a request completes it holds no open connection.
InRepository ==
    {"route", "create_insert", "create_readback", "update_write", "update_readback"}

C20_ConnectionClosedOnEveryPath ==
    \A r \in Reqs :
        /\ pc[r] = "idle" => conn[r] = "none"
        /\ (pc[r] \in InRepository /\ kind[r] # "health") => conn[r] = "open"
        /\ calls[r] > 0 => conn[r] \in {"open", "closed"}
        /\ pc[r] \in {"exit", "done"} =>
              conn[r] = IF kind[r] = "health" THEN "none" ELSE "closed"

\* a create whose INSERT raised has completed, and its connection is closed
C20_Witness ==
    \E r \in Reqs :
        /\ pc[r] = "done" /\ kind[r] = "create"
        /\ resp[r].raised /\ calls[r] = 2
        /\ conn[r] = "closed"

\* C21: delete reports a removal (the route answers 204) exactly when a row
\* with the id was in the table at the delete, and not found otherwise; it
\* removes that row only, and every other row is in the table afterwards with
\* every field as it was.
C21_DeleteRemovesThatRowOnly ==
    [][\A r \in Reqs :
          (pc[r] = "route" /\ kind'[r] = "delete") =>
              /\ resp'[r].status = HTTP_204_NO_CONTENT <=> loc'[r].sid \in Ids(db)
              /\ resp'[r].status = HTTP_404_NOT_FOUND <=> loc'[r].sid \notin Ids(db)
              /\ db' = {row \in db : row.id # loc'[r].sid}
              /\ \A row \in db : row.id # loc'[r].sid => row \in db'
              /\ db' \subseteq db]_vars

\* a delete of a seeded sensor was answered 204, and another seeded sensor is
\* in the table as seeded
C21_Witness ==
    \E r \in Reqs :
        /\ pc[r] = "done" /\ kind[r] = "delete"
        /\ resp[r].status = HTTP_204_NO_CONTENT
        /\ loc[r].sid = FormatId(1)
        /\ loc[r].sid \notin Ids(db)
        /\ SeedRow(3) \in db

\* the row that update r found at its existence check has been deleted since,
\* and r has not reached its write
DeletedUnderUpdate(r) == pc[r] = "update_write" /\ loc[r].sid \notin Ids(db)

\* C22 (as claimed): when the row is deleted between an update's existence
\* check and its write, the id is not in the table from then on, the write
\* changes no row, and the update answers not found: an update answers 200
\* only when its write found the row that its existence check found.
C22_UpdateNeverResurrects ==
    [][\A r \in Reqs :
          /\ DeletedUnderUpdate(r) =>
                /\ loc[r].sid \notin Ids(db')
                /\ UpdateWritten(r) => db' = db
          /\ (pc[r] = "update_readback" /\ pc'[r] # "update_readback"
                    /\ loc[r].sid \notin Ids(db)) =>
                /\ resp'[r].status = HTTP_404_NOT_FOUND
                /\ db' = db]_vars

\* the rows that create inserted: a row whose id a create has allocated (an
\* INSERT of a seeded id passes the primary key only once the seeded row is
\* gone, and a seeded row does not come back)
CreatedRows ==
    {row \in db : \E i \in 1..Len(allocated) : FormatId(allocated[i]) = row.id}

\* updated_at and last_reading of every created row are the same instant
RefreshedTogether == \A row \in CreatedRows : row.updated_at = row.last_reading

\* C23 (as claimed): in every state, every row that create inserted has
\* updated_at equal to last_reading, and created_at not later than updated_at.
C23_CreatedBeforeUpdated ==
    /\ RefreshedTogether
    /\ \A row \in CreatedRows : row.created_at <= row.updated_at

\* the body of an update sets at least one field, and every field it sets is
\* null
AllNull(updates) == updates.set # {} /\ updates.set \subseteq updates.nulls

\* the body of an update sets a field to null and another to a value
Mixed(updates) == updates.nulls # {} /\ ~(updates.set \subseteq updates.nulls)

\* C24: an update of an existing sensor whose fields are all null writes
\* nothing (no field changes, updated_at and last_reading stay) and answers
\* 200 with the record as stored, as an update with no fields does; an update
\* with null and non-null fields goes to the write, which changes the
\* non-null fields only.
C24_NullFieldsAreSkipped ==
    [][\A r \in Reqs :
          /\ (UpdateFound(r) /\ AllNull(loc'[r].body[1])) =>
                /\ db' = db
                /\ pc'[r] = "close"
                /\ resp'[r].status = 200
                /\ ~resp'[r].raised
                /\ resp'[r].body = GetById(db, loc'[r].sid)
                /\ resp'[r].body # <<>>
          /\ (UpdateFound(r) /\ Mixed(loc'[r].body[1])) =>
                pc'[r] = "update_write" /\ db' = db
          /\ (UpdateWritten(r) /\ Mixed(loc[r].body[1])) =>
                /\ ChangesExactly(db, db', loc[r].sid, loc[r].body[1],
                                  loc[r].body[1].set \ loc[r].body[1].nulls)
                /\ \A row \in db, changed \in db' :
                      (row.id = loc[r].sid /\ changed.id = loc[r].sid) =>
                          \A f \in loc[r].body[1].nulls : changed[f] = row[f]]_vars

\* an update with name and value both null was answered, after the clock
\* moved, with the record as it is stored: the name it was created with, and
\* timestamps older than the update
C24_Witness ==
    \E r \in Reqs :
        /\ pc[r] = "done" /\ kind[r] = "update" /\ resp[r].status = 200
        /\ loc[r].body # <<>>
        /\ loc[r].body[1].set = {"name", "value"}
        /\ loc[r].body[1].nulls = {"name", "value"}
        /\ resp[r].body[1] \in db
        /\ resp[r].body[1].name = "Test Sensor"
        /\ resp[r].body[1].updated_at < now
        /\ resp[r].body[1].last_reading < now

\* C25 (as claimed): the sensors of a list answer are in ascending order of
\* numeric suffix, whatever the store holds, a suffix of more digits than the
\* width of the id format included.
C25_ListOrderIsNumericOrder ==
    [][\A r \in Reqs :
          (pc[r] = "route" /\ kind'[r] = "list") =>
              LET sensors == resp'[r].body[1].sensors
              IN  \A i \in 1..Len(sensors), j \in 1..Len(sensors) :
                      i < j => CastInteger(sensors[i].id) < CastInteger(sensors[j].id)]_vars

====
